---- MODULE Spec2Model ----
(***************************************************************************)
(* Model of backend/main.py: the FastAPI handlers over the three SQLite    *)
(* tables users, thoughts and resonances.                                  *)
(*                                                                         *)
(* Every handler opens its own connection.  The sqlite3 module opens a     *)
(* transaction only in front of INSERT/DELETE, so the SELECTs of a handler *)
(* and its writes are separate units of the store: toggle_resonance and    *)
(* delete_thought consist of a read step followed by a write step.         *)
(* Handlers with one write statement after reads of the never-shrinking    *)
(* users table (register, add_thought) and the read-only handlers are      *)
(* single steps.                                                           *)
(*                                                                         *)
(* Spec serves one request at a time: every handler runs from its first    *)
(* line to its response.  SpecConcurrent lets the steps of other requests  *)
(* fall between the read step and the write step of toggle_resonance and   *)
(* delete_thought.                                                         *)
(* PRAGMA foreign_keys is never set, so the FOREIGN KEY clauses of the     *)
(* resonances table are not enforced by the store.                         *)
(***************************************************************************)
EXTENDS Integers, Sequences, FiniteSets, Bags

VARIABLES users, thoughts, resonances, now, pending, resp, run

vars == <<users, thoughts, resonances, now, pending, resp, run>>

tables == <<users, thoughts, resonances>>

----------------------------------------------------------------------------
(* Bounds of the model *)

\* thought ids a request may name, and the largest id the thoughts table reaches
MaxThoughtId == 2

\* the same, where requests interleave
MaxRaceThoughtId == 1

\* CURRENT_TIMESTAMP takes the values 0..MaxTime
MaxTime == 1

\* requests that may be between their read step and their write step
MaxInflight == 2

\* length of a run of back-to-back toggles that is recorded
MaxRun == 3

Usernames == {"alice", "bob"}

Passwords == {"pw1", "pw2"}

ThoughtIds == 1..MaxThoughtId

None == "None"

----------------------------------------------------------------------------
(* Helpers: passwords and tokens *)

\* pwd_context.hash / pwd_context.verify: a one-way digest of the password
pwd_hash(password) == <<"argon2", password>>

pwd_verify(password, hash) == hash = <<"argon2", password>>

\* create_token: a signed payload carrying the subject
create_token(sub) == [valid |-> TRUE, sub |-> sub]

\* a token whose signature or expiry check fails, or that is malformed
BadToken == [valid |-> FALSE, sub |-> None]

\* a correctly signed token whose payload has no "sub"
NoSubToken == [valid |-> TRUE, sub |-> None]

Tokens == {BadToken, NoSubToken} \cup {create_token(n) : n \in Usernames}

\* get_current_user: the subject, or the 401 it raises
get_current_user(token) ==
    IF ~token.valid THEN [ok |-> FALSE, code |-> 401, user |-> None]
    ELSE IF token.sub = None THEN [ok |-> FALSE, code |-> 401, user |-> None]
    ELSE [ok |-> TRUE, code |-> 200, user |-> token.sub]

----------------------------------------------------------------------------
(* The store *)

Max(S) == CHOOSE x \in S : \A y \in S : y <= x

\* faulty variant: the smallest unused rowid, which fills the holes deletes leave
NextRowId_Reuse(ids) == CHOOSE i \in 1..(Cardinality(ids) + 1) : i \notin ids /\ \A k \in 1..(i - 1) : k \in ids

\* INTEGER PRIMARY KEY without AUTOINCREMENT: one more than the largest rowid
NextRowId(ids) == IF ids = {} THEN 1 ELSE Max(ids) + 1

Range(s) == {s[i] : i \in 1..Len(s)}

UserIds == {r.id : r \in users}

\* thoughts is kept in insertion order; the table is the set of its rows
ThoughtRows == Range(thoughts)

ThoughtIdsOf(rows) == {r.id : r \in rows}

\* SELECT ... FROM users WHERE username=?  (all matching rows)
SelectUsers(username) == {r \in users : r.username = username}

\* .fetchone() on that query
FetchUser(username) ==
    IF SelectUsers(username) = {} THEN [id |-> 0, username |-> None, password_hash |-> <<>>]
    ELSE CHOOSE r \in SelectUsers(username) : TRUE

HasUser(username) == SelectUsers(username) # {}

\* faulty variant: the column without its UNIQUE constraint
UsernameUnique_Off(tbl, username) == TRUE

\* username TEXT UNIQUE
UsernameUnique(tbl, username) == \A r \in tbl : r.username # username

\* faulty variant: the table without its primary key
ResonancePK_Off(tbl, uid, tid) == TRUE

\* PRIMARY KEY (user_id, thought_id)
ResonancePK(tbl, uid, tid) == \A r \in tbl : ~(r.user_id = uid /\ r.thought_id = tid)

\* SELECT 1 FROM resonances WHERE user_id=? AND thought_id=?
ResonanceExists(uid, tid) == \E r \in resonances : r.user_id = uid /\ r.thought_id = tid

\* SELECT user_id FROM thoughts WHERE id=?
SelectThought(tid) == {r \in ThoughtRows : r.id = tid}

NoResp == [op |-> "none", tok |-> BadToken, user |-> None, tid |-> 0, code |-> 0,
           msg |-> "", created |-> <<>>, saved |-> <<>>]

Response(op, tok, user, tid, code, msg) ==
    [op |-> op, tok |-> tok, user |-> user, tid |-> tid, code |-> code,
     msg |-> msg, created |-> <<>>, saved |-> <<>>]

NoRun == [active |-> FALSE, uid |-> 0, tid |-> 0, before |-> {}, results |-> <<>>]

Init ==
    /\ users = {}
    /\ thoughts = <<>>
    /\ resonances = {}
    /\ now = 0
    /\ pending = EmptyBag
    /\ resp = NoResp
    /\ run = NoRun

----------------------------------------------------------------------------
(* The clock behind CURRENT_TIMESTAMP *)

Tick ==
    /\ now < MaxTime
    /\ now' = now + 1
    /\ UNCHANGED <<users, thoughts, resonances, pending, resp, run>>

----------------------------------------------------------------------------
(* POST /register *)

register(username, password) ==
    /\ IF UsernameUnique(users, username)
       THEN /\ users' = users \cup {[id |-> NextRowId(UserIds), username |-> username,
                                      password_hash |-> pwd_hash(password)]}
            /\ resp' = Response("register", BadToken, username, 0, 200, "Created")
       ELSE \* sqlite3.IntegrityError
            /\ users' = users
            /\ resp' = Response("register", BadToken, username, 0, 400, "Exists")
    /\ run' = NoRun
    /\ UNCHANGED <<thoughts, resonances, now, pending>>

----------------------------------------------------------------------------
(* POST /login *)

\* the condition under which login does not raise 401
LoginOk(username, password) ==
    /\ HasUser(username)
    /\ pwd_verify(password, FetchUser(username).password_hash)

login(username, password) ==
    /\ IF ~LoginOk(username, password)
       THEN resp' = Response("login", BadToken, username, 0, 401, "Bad credentials")
       ELSE resp' = Response("login", create_token(username), username, 0, 200, "token")
    /\ run' = NoRun
    /\ UNCHANGED <<users, thoughts, resonances, now, pending>>

----------------------------------------------------------------------------
(* POST /thoughts *)

\* cap: the largest id the thoughts table may reach in this specification
add_thought(token, cap) ==
    LET cu == get_current_user(token)
        u_row == FetchUser(cu.user)
        id == NextRowId(ThoughtIdsOf(ThoughtRows))
    IN  /\ IF ~cu.ok
           THEN /\ resp' = Response("add_thought", token, None, 0, 401, "Invalid token")
                /\ thoughts' = thoughts
           ELSE IF ~HasUser(cu.user)
           THEN /\ resp' = Response("add_thought", token, cu.user, 0, 401, "User not found")
                /\ thoughts' = thoughts
           ELSE /\ id <= cap
                /\ thoughts' = Append(thoughts, [id |-> id, user_id |-> u_row.id])
                /\ resp' = Response("add_thought", token, cu.user, id, 200, "Saved")
        /\ run' = NoRun
        /\ UNCHANGED <<users, resonances, now, pending>>

----------------------------------------------------------------------------
(* GET /thoughts/mine *)

RECURSIVE SortIdDesc(_)
\* ORDER BY t.id DESC, projected on t.id
SortIdDesc(rows) ==
    IF rows = {} THEN <<>>
    ELSE LET top == CHOOSE r \in rows : \A q \in rows : q.id <= r.id
         IN  <<top.id>> \o SortIdDesc(rows \ {top})

\* sql_created: thoughts t JOIN users u ON t.user_id = u.id WHERE u.id = ?
CreatedRows(uid) ==
    {t \in ThoughtRows : \E u \in users : t.user_id = u.id /\ u.id = uid}

\* sql_saved: thoughts t JOIN resonances r ON t.id = r.thought_id
\*            JOIN users u ON t.user_id = u.id WHERE r.user_id = ?
SavedJoin(uid) ==
    {j \in ThoughtRows \X resonances :
        /\ j[1].id = j[2].thought_id
        /\ \E u \in users : j[1].user_id = u.id
        /\ j[2].user_id = uid}

\* ORDER BY r.timestamp DESC: every order of the joined rows with non-increasing
\* timestamps (rows of one timestamp come in an order the store chooses)
SavedOrders(uid) ==
    LET J == SavedJoin(uid)
        n == Cardinality(J)
        byTime == {f \in [1..n -> J] :
                     /\ \A i, k \in 1..n : i # k => f[i] # f[k]
                     /\ \A i, k \in 1..n : i < k => f[i][2].timestamp >= f[k][2].timestamp}
    IN  {[i \in 1..n |-> f[i][1].id] : f \in byTime}

get_my_thoughts(token) ==
    LET cu == get_current_user(token)
        uid == FetchUser(cu.user).id
    IN  /\ IF ~cu.ok
           THEN resp' = Response("mine", token, None, 0, 401, "Invalid token")
           ELSE IF ~HasUser(cu.user)
           THEN resp' = Response("mine", token, cu.user, 0, 401, "User not found")
           ELSE \E saved \in SavedOrders(uid) :
                    resp' = [Response("mine", token, cu.user, 0, 200, "") EXCEPT
                                !.created = SortIdDesc(CreatedRows(uid)),
                                !.saved = saved]
        /\ run' = NoRun
        /\ UNCHANGED <<users, thoughts, resonances, now, pending>>

----------------------------------------------------------------------------
(* POST /thoughts/{thought_id}/resonate *)

\* faulty variant: the WHERE clause without its thought_id term
DeleteResonance_AllOfUser(tbl, uid, tid) == {r \in tbl : r.user_id # uid}

\* DELETE FROM resonances WHERE user_id=? AND thought_id=?
DeleteResonance(tbl, uid, tid) ==
    {r \in tbl : ~(r.user_id = uid /\ r.thought_id = tid)}

\* the status the handler returns: "exist" is what its SELECT saw
ToggleMsg(exist) == IF exist THEN "Unsaved" ELSE "Saved"

\* a request that has done its reads
Request(op, token, uid, tid, exist) ==
    [op |-> op, tok |-> token, uid |-> uid, tid |-> tid, exist |-> exist]

\* the status of lines 174-179
ToggleReadCode(token) ==
    LET cu == get_current_user(token)
    IN  IF ~cu.ok
        THEN 401  \* get_current_user is called outside the try block
        ELSE IF ~HasUser(cu.user)
        THEN 400  \* HTTPException(401) is raised inside the try block and is
                  \* caught by "except Exception", which raises 400
        ELSE 200

ToggleReadMsg(code) ==
    IF code = 401 THEN "Invalid token" ELSE "Error processing resonance"

\* lines 180-182: the request with its user id and what its SELECT saw
ToggleRequest(token, thought_id) ==
    LET uid == FetchUser(token.sub).id
    IN  Request("toggle", token, uid, thought_id, ResonanceExists(uid, thought_id))

\* lines 184-195 on the table tbl at time ts
ToggleWrite(tbl, req, ts) ==
    IF req.exist
    THEN [tbl |-> DeleteResonance(tbl, req.uid, req.tid), code |-> 200,
          msg |-> ToggleMsg(TRUE)]
    ELSE IF ResonancePK(tbl, req.uid, req.tid)
    THEN [tbl |-> tbl \cup {[user_id |-> req.uid, thought_id |-> req.tid, timestamp |-> ts]},
          code |-> 200, msg |-> ToggleMsg(FALSE)]
    ELSE \* sqlite3.IntegrityError, caught by "except Exception"
         [tbl |-> tbl, code |-> 400, msg |-> "Error processing resonance"]

\* the record of back-to-back toggles of one user on one thought
RunAfter(req, msg) ==
    IF /\ run.active /\ run.uid = req.uid /\ run.tid = req.tid
       /\ Len(run.results) < MaxRun
    THEN [run EXCEPT !.results = Append(@, msg)]
    ELSE IF ~req.exist
    THEN [active |-> TRUE, uid |-> req.uid, tid |-> req.tid,
          before |-> resonances, results |-> <<msg>>]
    ELSE NoRun

\* the whole handler, served alone
toggle_resonance(token, thought_id) ==
    LET code == ToggleReadCode(token)
        req == ToggleRequest(token, thought_id)
        w == ToggleWrite(resonances, req, now)
    IN  /\ IF code # 200
           THEN /\ resp' = Response("toggle", token, token.sub, thought_id, code,
                                    ToggleReadMsg(code))
                /\ resonances' = resonances
                /\ run' = NoRun
           ELSE /\ resonances' = w.tbl
                /\ resp' = Response("toggle", token, token.sub, thought_id, w.code, w.msg)
                /\ run' = RunAfter(req, w.msg)
        /\ UNCHANGED <<users, thoughts, now, pending>>

\* lines 174-182 of a request served among others
toggle_resonance_read(token, thought_id) ==
    LET code == ToggleReadCode(token)
    IN  /\ IF code # 200
           THEN /\ resp' = Response("toggle", token, token.sub, thought_id, code,
                                    ToggleReadMsg(code))
                /\ pending' = pending
           ELSE /\ BagCardinality(pending) < MaxInflight
                /\ pending' = pending (+) SetToBag({ToggleRequest(token, thought_id)})
                /\ resp' = NoResp
        /\ run' = NoRun
        /\ UNCHANGED <<users, thoughts, resonances, now>>

\* lines 184-195 of a request served among others
toggle_resonance_write(req) ==
    LET w == ToggleWrite(resonances, req, now)
    IN  /\ req \in BagToSet(pending)
        /\ req.op = "toggle"
        /\ pending' = pending (-) SetToBag({req})
        /\ resonances' = w.tbl
        /\ resp' = Response("toggle", req.tok, req.tok.sub, req.tid, w.code, w.msg)
        /\ run' = NoRun
        /\ UNCHANGED <<users, thoughts, now>>

----------------------------------------------------------------------------
(* GET /thoughts/{thought_id}/resonated *)

\* the boolean the handler returns
IsResonated(token, thought_id) ==
    LET cu == get_current_user(token)
    IN  IF ~cu.ok THEN FALSE
        ELSE IF ~HasUser(cu.user) THEN FALSE
        ELSE ResonanceExists(FetchUser(cu.user).id, thought_id)

is_resonated(token, thought_id) ==
    /\ resp' = Response("resonated", token, token.sub, thought_id, 200,
                        IF IsResonated(token, thought_id) THEN "True" ELSE "False")
    /\ run' = NoRun
    /\ UNCHANGED <<users, thoughts, resonances, now, pending>>

----------------------------------------------------------------------------
(* DELETE /thoughts/{thought_id} *)

\* faulty variant: no ownership check
IsOwner_Any(t_row, u_row) == TRUE

\* t_row['user_id'] != u_row['id'] raises 403
IsOwner(t_row, u_row) == t_row.user_id = u_row.id

\* faulty variant: the thought is deleted and its resonances are left behind
DeleteResonancesOf_Kept(tbl, tid) == tbl

\* DELETE FROM resonances WHERE thought_id=?
DeleteResonancesOf(tbl, tid) == {r \in tbl : r.thought_id # tid}

\* DELETE FROM thoughts WHERE id=?
DeleteThoughtRow(tbl, tid) == SelectSeq(tbl, LAMBDA r : r.id # tid)

\* the status of lines 214-225
DeleteCode(token, thought_id) ==
    LET cu == get_current_user(token)
    IN  IF ~cu.ok THEN 401
        ELSE IF ~HasUser(cu.user) THEN 401
        ELSE IF SelectThought(thought_id) = {} THEN 404
        ELSE IF ~IsOwner(CHOOSE t \in SelectThought(thought_id) : TRUE, FetchUser(cu.user))
        THEN 403
        ELSE 200

DeleteMsg(code) ==
    IF code = 401 THEN "Invalid token or user"
    ELSE IF code = 404 THEN "Not found"
    ELSE IF code = 403 THEN "Not owner"
    ELSE "Deleted"

\* the whole handler, served alone
delete_thought(token, thought_id) ==
    LET code == DeleteCode(token, thought_id)
    IN  /\ resp' = Response("delete", token, token.sub, thought_id, code, DeleteMsg(code))
        /\ IF code # 200
           THEN UNCHANGED <<resonances, thoughts>>
           ELSE /\ resonances' = DeleteResonancesOf(resonances, thought_id)
                /\ thoughts' = DeleteThoughtRow(thoughts, thought_id)
        /\ run' = NoRun
        /\ UNCHANGED <<users, now, pending>>

\* lines 214-225 of a request served among others
delete_thought_read(token, thought_id) ==
    LET code == DeleteCode(token, thought_id)
    IN  /\ IF code # 200
           THEN /\ resp' = Response("delete", token, token.sub, thought_id, code, DeleteMsg(code))
                /\ pending' = pending
           ELSE /\ BagCardinality(pending) < MaxInflight
                /\ pending' = pending (+)
                       SetToBag({Request("delete", token, FetchUser(token.sub).id, thought_id, TRUE)})
                /\ resp' = NoResp
        /\ run' = NoRun
        /\ UNCHANGED <<users, thoughts, resonances, now>>

\* lines 227-230 of a request served among others: both DELETEs are one transaction
delete_thought_write(req) ==
    /\ req \in BagToSet(pending)
    /\ req.op = "delete"
    /\ pending' = pending (-) SetToBag({req})
    /\ resonances' = DeleteResonancesOf(resonances, req.tid)
    /\ thoughts' = DeleteThoughtRow(thoughts, req.tid)
    /\ resp' = Response("delete", req.tok, req.tok.sub, req.tid, 200, DeleteMsg(200))
    /\ run' = NoRun
    /\ UNCHANGED <<users, now>>

----------------------------------------------------------------------------
(* Specifications *)

RaceThoughtIds == 1..MaxRaceThoughtId

\* one request at a time
Next ==
    \/ Tick
    \/ \E n \in Usernames, p \in Passwords : register(n, p)
    \/ \E n \in Usernames, p \in Passwords : login(n, p)
    \/ \E tok \in Tokens : add_thought(tok, MaxThoughtId)
    \/ \E tok \in Tokens : get_my_thoughts(tok)
    \/ \E tok \in Tokens, t \in ThoughtIds : toggle_resonance(tok, t)
    \/ \E tok \in Tokens, t \in ThoughtIds : is_resonated(tok, t)
    \/ \E tok \in Tokens, t \in ThoughtIds : delete_thought(tok, t)

Spec == Init /\ [][Next]_vars

\* requests interleave at the statements of the store
NextConcurrent ==
    \/ Tick
    \/ \E n \in Usernames, p \in Passwords : register(n, p)
    \/ \E n \in Usernames, p \in Passwords : login(n, p)
    \/ \E tok \in Tokens : add_thought(tok, MaxRaceThoughtId)
    \/ \E tok \in Tokens : get_my_thoughts(tok)
    \/ \E tok \in Tokens, t \in RaceThoughtIds : toggle_resonance_read(tok, t)
    \/ \E req \in BagToSet(pending) : toggle_resonance_write(req)
    \/ \E tok \in Tokens, t \in RaceThoughtIds : is_resonated(tok, t)
    \/ \E tok \in Tokens, t \in RaceThoughtIds : delete_thought_read(tok, t)
    \/ \E req \in BagToSet(pending) : delete_thought_write(req)

SpecConcurrent == Init /\ [][NextConcurrent]_vars

----------------------------------------------------------------------------
(* Properties *)

ExistingThoughtIds == ThoughtIdsOf(ThoughtRows)

ResonancesOn(tid) == {r \in resonances : r.thought_id = tid}

\* the request of the step is authenticated: a valid token of a registered user
Authenticated(token) == get_current_user(token).ok /\ HasUser(token.sub)

\* C1: right after a successful delete of thought t, no resonance row has
\* thought_id = t, the status query on t answers false for every token, and the
\* same delete again answers 404.
C1_DeleteRemovesResonances ==
    (resp.op = "delete" /\ resp.code = 200) =>
        /\ ResonancesOn(resp.tid) = {}
        /\ \A tok \in Tokens : ~IsResonated(tok, resp.tid)
        /\ DeleteCode(resp.tok, resp.tid) = 404

\* a delete has succeeded while a resonance on another thought stays
C1_Witness ==
    /\ resp.op = "delete" /\ resp.code = 200
    /\ resonances # {}
    /\ ExistingThoughtIds # {}

\* C2: back-to-back toggles of one user on one thought, the first of which found
\* no row, answer Saved, Unsaved, Saved, ... and after every even number of them
\* the resonances table is the table before the first.
C2_ToggleAlternates ==
    run.active =>
        /\ \A i \in 1..Len(run.results) :
               run.results[i] = IF i % 2 = 1 THEN "Saved" ELSE "Unsaved"
        /\ (Len(run.results) % 2 = 0 => resonances = run.before)

\* two toggles in a row, Saved then Unsaved, with other rows in the table
C2_Witness ==
    /\ run.active
    /\ run.before # {}
    /\ Len(run.results) = 2
    /\ resp.msg = "Unsaved"

UsernamesUnique ==
    \A r1, r2 \in users : r1.username = r2.username => r1 = r2

RegisterContract ==
    \A n \in Usernames, p \in Passwords :
        (resp'.op = "register" /\ register(n, p)) =>
            IF HasUser(n)
            THEN resp'.code = 400 /\ resp'.msg = "Exists" /\ users' = users
            ELSE /\ resp'.code = 200 /\ resp'.msg = "Created"
                 /\ Cardinality({r \in users' : r.username = n}) = 1
                 /\ users \subseteq users'

\* C3: at most one users row per username; a register of a free username answers
\* Created and adds the one row, a register of a taken username answers
\* 400 Exists and leaves the users table as it was.
C3_OneRowPerUsername == []UsernamesUnique /\ [][RegisterContract]_vars

\* a second register of a username has been refused while requests are in flight
C3_Witness ==
    /\ resp.op = "register" /\ resp.code = 400
    /\ Cardinality(users) = 2
    /\ pending # EmptyBag

DeleteRefusals ==
    \A tok \in Tokens, t \in ThoughtIds :
        (resp'.op = "delete" /\ delete_thought(tok, t) /\ Authenticated(tok)) =>
            /\ (t \notin ExistingThoughtIds =>
                    resp'.code = 404 /\ thoughts' = thoughts /\ resonances' = resonances)
            /\ (\E row \in ThoughtRows : row.id = t /\ row.user_id # FetchUser(tok.sub).id) =>
                    resp'.code = 403 /\ thoughts' = thoughts /\ resonances' = resonances

\* C4: an authenticated delete of an existing thought by a user who is not its
\* author answers 403, an authenticated delete of a thought id that is not in
\* the table answers 404, and both leave thoughts and resonances as they were.
C4_NonOwnerDeleteRefused == [][DeleteRefusals]_vars

\* a non-owner's delete of a thought that has a resonance has been refused
C4_Witness ==
    /\ resp.op = "delete" /\ resp.code = 403
    /\ ResonancesOn(resp.tid) # {}
    /\ resp.tid \in ExistingThoughtIds

RejectedInsertIsSuccess ==
    \A req \in BagToSet(pending) :
        (/\ resp'.op = "toggle"
         /\ toggle_resonance_write(req)
         /\ ~req.exist
         /\ ~ResonancePK(resonances, req.uid, req.tid)) =>
            resp'.code = 200 /\ resonances' = resonances

\* C5: a toggle whose SELECT saw no row and whose INSERT the primary key
\* rejects is answered as a success and changes nothing.
C5_RejectedInsertIsSuccess == [][RejectedInsertIsSuccess]_vars

\* C6: at most one resonances row per (user_id, thought_id).
C6_OneRowPerPair ==
    \A r1, r2 \in resonances :
        (r1.user_id = r2.user_id /\ r1.thought_id = r2.thought_id) => r1 = r2

\* the insert of one of two racing toggles has been rejected
C6_Witness ==
    /\ resp.op = "toggle" /\ resp.code = 400
    /\ Authenticated(resp.tok)
    /\ ResonancesOn(resp.tid) # {}

\* C7: every resonances row references a users row and a thoughts row.
C7_ReferentialIntegrity ==
    \A r \in resonances : r.user_id \in UserIds /\ r.thought_id \in ExistingThoughtIds

UnauthenticatedIs401 ==
    \A tok \in Tokens, t \in ThoughtIds :
        (/\ resp'.op \in {"add_thought", "mine", "toggle", "delete"}
         /\ resp'.tok = tok
         /\ ~Authenticated(tok)
         /\ \/ add_thought(tok, MaxThoughtId)
            \/ get_my_thoughts(tok)
            \/ toggle_resonance(tok, t)
            \/ delete_thought(tok, t)) =>
            resp'.code = 401 /\ tables' = tables

\* C8: create, mine, toggle and delete answer a request whose token is invalid,
\* or valid with a subject that has no users row, with 401 and leave every
\* table as it was.
C8_UnauthenticatedIs401 == [][UnauthenticatedIs401]_vars

\* the tokens login returns in this state; users rows are never changed or
\* deleted, so every token login has returned is among them
LoginTokens ==
    {create_token(n) : n \in {m \in Usernames : \E p \in Passwords : LoginOk(m, p)}}

Reverse(seq) == [i \in 1..Len(seq) |-> seq[Len(seq) + 1 - i]]

\* the ids of the thoughts of author uid, latest insertion first
NewestFirst(uid) ==
    LET own == SelectSeq(thoughts, LAMBDA r : r.user_id = uid)
    IN  Reverse([i \in 1..Len(own) |-> own[i].id])

\* C9: /thoughts/mine with a token login returns answers 200; "created" is the
\* caller's thoughts, newest first; "saved" is, once each, the existing thoughts
\* the caller has a resonance row on; a thought of the caller that only others
\* resonate with is in "created" and not in "saved".
C9_MineIsCallersData ==
    (resp.op = "mine" /\ resp.tok \in LoginTokens) =>
        LET uid == FetchUser(resp.tok.sub).id
        IN  /\ resp.code = 200
            /\ resp.created = NewestFirst(uid)
            /\ \A i, k \in 1..Len(resp.saved) : i # k => resp.saved[i] # resp.saved[k]
            /\ Range(resp.saved) = {t \in ExistingThoughtIds : ResonanceExists(uid, t)}
            /\ \A row \in ThoughtRows :
                   (/\ row.user_id = uid
                    /\ ResonancesOn(row.id) # {}
                    /\ \A r \in ResonancesOn(row.id) : r.user_id # uid) =>
                       row.id \in Range(resp.created) /\ row.id \notin Range(resp.saved)

\* the caller has two thoughts, one of them resonated only by the other user,
\* and a saved thought
C9_Witness ==
    /\ resp.op = "mine" /\ resp.tok \in LoginTokens /\ resp.code = 200
    /\ Len(resp.created) = 2
    /\ Len(resp.saved) = 1
    /\ \E t \in Range(resp.created) :
           /\ ResonancesOn(t) # {}
           /\ \A r \in ResonancesOn(t) : r.user_id # FetchUser(resp.tok.sub).id

\* C10: right after a successful create, no resonance row has the new
\* thought's id.
C10_NewThoughtHasNoResonance ==
    (resp.op = "add_thought" /\ resp.code = 200) => ResonancesOn(resp.tid) = {}

====
